---------------------------- MODULE Spec2Model ----------------------------
(***************************************************************************)
(* Redundancy descriptors of the SCR library (src/src/scr_reddesc.c).      *)
(*                                                                         *)
(* The job is a fixed set of MPI ranks.  Every rank runs the same code on  *)
(* its own memory; ranks meet only in collectives (scr_alltrue,            *)
(* scr_str_bcast, ER_Create_Scheme, MPI_Allreduce).  A rank's code between *)
(* two collectives is one action of that rank; a collective is one action  *)
(* that fires when every rank of its communicator waits in it.             *)
(*                                                                         *)
(* Specifications:                                                         *)
(*   Spec        scr_reddescs_create on a table of one descriptor, over    *)
(*               every configuration of Configs                            *)
(*   SpecTable   scr_reddescs_create and scr_reddescs_free on tables of up *)
(*               to MaxDescs descriptors over TableConfigs                 *)
(*   SpecSelect  scr_reddesc_for_checkpoint on tables build can leave      *)
(*   SpecApply   scr_reddesc_apply / _recover / _unapply                   *)
(*   SpecApplyLive  SpecApply with every rank running on and every       *)
(*               collective returning once all ranks have entered it       *)
(*   SpecFree    SpecTable with scr_reddesc_free on single descriptors     *)
(*   SpecStore   scr_reddesc_store_to_hash on descriptors build leaves     *)
(***************************************************************************)
EXTENDS Integers, Sequences, FiniteSets, TLC

(* ------------------------------ bounds -------------------------------- *)
NumRanks == 2
MaxDescs == 2
MaxId == 4
MaxFiles == 1

Ranks == 0 .. (NumRanks - 1)
scr_ranks_world == NumRanks

(* --------------------------- plain values ----------------------------- *)
SCR_SUCCESS == "SCR_SUCCESS"
SCR_FAILURE == "SCR_FAILURE"
NULL == "NULL"

SCR_COPY_NULL == "SCR_COPY_NULL"
SCR_COPY_SINGLE == "SCR_COPY_SINGLE"
SCR_COPY_PARTNER == "SCR_COPY_PARTNER"
SCR_COPY_XOR == "SCR_COPY_XOR"
(* what an int that was never assigned may hold besides the four above *)
COPY_GARBAGE == "COPY_GARBAGE"

(* ------------------------- job-wide globals --------------------------- *)
scr_cache_base == "/ram"
scr_copy_type == SCR_COPY_XOR
scr_group == "NODE"
SCR_GROUP_NODE == "NODE"
scr_username == "user"
scr_jobid == "job"

(* scr_storedescs, in table order (index 0, 1) *)
scr_storedescs ==
  <<[name |-> "/ram", enabled |-> TRUE], [name |-> "/ssd", enabled |-> FALSE]>>

scr_nstoredescs == Len(scr_storedescs)

(* spath reduction of the store names the configurations use *)
spath_strdup_reduce_str(s) ==
  CASE s = "/ssd/" -> "/ssd"
    [] s = "/ram/./" -> "/ram"
    [] OTHER -> s

(* scr_storedescs_index_from_name on a rank whose registry is intact *)
scr_storedescs_index_from_name(name) ==
  IF \E i \in 1 .. scr_nstoredescs : scr_storedescs[i].name = name
  THEN (CHOOSE i \in 1 .. scr_nstoredescs : scr_storedescs[i].name = name) - 1
  ELSE 0 - 1

(* strcasecmp(value, token) == 0 on the TYPE strings the configurations use *)
UpperCase(s) ==
  CASE s = "xor" -> "XOR"
    [] s = "Partner" -> "PARTNER"
    [] OTHER -> s

strcasecmp_eq(a, b) == UpperCase(a) = UpperCase(b)

(* ------------------------- configurations ----------------------------- *)
(* A configuration subtree is a function from the keys it holds to their  *)
(* values; a key it does not hold is absent from its domain.              *)
kvtree_has(hash, key) == key \in DOMAIN hash

(* kvtree_util_get_int / kvtree_util_get_str: the value when the key is   *)
(* set, the caller's default otherwise                                    *)
kvtree_util_get(hash, key, default) ==
  IF kvtree_has(hash, key) THEN hash[key] ELSE default

(* a key that may be absent: <<>> or <<value>> *)
Opt(S) == {<<>>} \cup {<<v>> : v \in S}

KVOpt(key, opt) == IF opt = <<>> THEN <<>> ELSE key :> opt[1]

EnabledVals == {0}
IntervalVals == {0 - 2, 0, 2}
StoreVals == {"/ssd/", "/no/such"}
TypeVals == {"SINGLE", "Partner", "xor", "RAID5"}
GroupVals == {"RACK"}

Configs ==
  { KVOpt("ENABLED", e) @@ KVOpt("INTERVAL", i) @@ KVOpt("STORE", s)
      @@ KVOpt("TYPE", t) @@ KVOpt("GROUP", g)
    : e \in Opt(EnabledVals), i \in Opt(IntervalVals), s \in Opt(StoreVals),
      t \in Opt(TypeVals), g \in Opt(GroupVals) }

TableConfigs == { KVOpt("ENABLED", e) : e \in Opt(EnabledVals) }

SelectIntervals == {0 - 2, 0, 2, 4}

SelectConfigs ==
  { KVOpt("ENABLED", e) @@ KVOpt("INTERVAL", i)
    : e \in Opt(EnabledVals), i \in Opt(SelectIntervals) }

(* where the ranks run: all on one node, or one node each, or rank 0     *)
(* alone on its node                                                      *)
NodeLayouts ==
  { [r \in Ranks |-> 0],
    [r \in Ranks |-> r],
    [r \in Ranks |-> IF r = 0 THEN 0 ELSE 1] }

(* ----------------------------- state ---------------------------------- *)
VARIABLES
  pc,              \* per rank: where the rank is
  reddesc_hash,    \* scr_reddesc_hash[CKPTDESC], sorted; same on all ranks
  node_of,         \* the node each rank runs on (GroupRegistry[NODE])
  store_ok,        \* per rank: whether its scr_storedescs holds StoreNames
  scr_reddescs,    \* per rank: the descriptor array
  scr_nreddescs,   \* per rank
  index,           \* per rank: loop index of scr_reddescs_create
  all_valid,       \* per rank: flag of scr_reddescs_create
  flag,            \* per rank: the value passed to the pending scr_alltrue
  failure_domain,  \* per rank: string of scr_str_bcast
  create_rc,       \* per rank: what scr_reddescs_create returned
  er_live,         \* per rank: scheme handles ER_Create_Scheme gave out
                   \*           and ER_Free_Scheme has not taken back
  er_next,         \* per rank: next scheme handle of the erasure library
  er_bad,          \* per rank: ER_Free_Scheme was given a handle not live
  bad_free,        \* per rank: free() was given a pointer never allocated
  coll_log,        \* per rank: the collectives the current build entered
  warn_log,        \* per rank: the scr_warn calls of its builds, in order
  \* scr_reddesc_for_checkpoint
  sel_pc,          \* "idle", "ready" (arguments chosen) or "done"
  sel_descs,       \* the descs argument
  sel_id,          \* the id argument
  sel_d,           \* the result: an index into descs, or -1 for NULL
  \* scr_reddesc_apply, scr_reddesc_recover, scr_reddesc_unapply
  op,              \* which of the three every rank was called with
  apc,             \* per rank: where the rank is in it
  app_desc,        \* the desc argument of apply (the same on every rank)
  files,           \* per rank: the files of its filemap
  set_id,          \* per rank: what ER_Create returned
  valid,           \* per rank: local flag of apply
  my_bytes,        \* per rank
  rc,              \* per rank: local rc
  ret,             \* per rank: what the call returned ("none" before)
  bytes,           \* per rank: *bytes of apply
  er_ok,           \* per rank: which of ER_Dispatch, ER_Wait, ER_Free
                   \*           returned ER_SUCCESS
  er_log,          \* per rank: the erasure-set calls made, in order
  \* scr_reddesc_store_to_hash
  st_pc,           \* "idle", "ready", "built" or "done"
  st_cfg,          \* the configuration subtree the descriptor is built from
  st_desc,         \* the descriptor
  st_hash,         \* the hash scr_reddesc_store_to_hash filled
  st_req           \* the arguments build gave ER_Create_Scheme, <<>> if
                   \* it was not called

buildvars ==
  <<pc, reddesc_hash, node_of, store_ok, scr_reddescs, scr_nreddescs, index,
    all_valid, flag, failure_domain, create_rc, er_live, er_next, er_bad,
    bad_free, coll_log, warn_log>>

selvars == <<sel_pc, sel_descs, sel_id, sel_d>>

appvars ==
  <<op, apc, app_desc, files, set_id, valid, my_bytes, rc, ret, bytes, er_ok,
    er_log>>

storevars == <<st_pc, st_cfg, st_desc, st_hash, st_req>>

vars == <<buildvars, selvars, appvars, storevars>>

(* ------------------------ one descriptor ------------------------------ *)
DescFields ==
  {"enabled", "index", "interval", "output", "store_index", "group_index",
   "base", "directory", "copy_type", "er_scheme"}

(* memory from SCR_MALLOC: every field holds whatever was there *)
MallocDesc ==
  [undef |-> DescFields, enabled |-> 0, index |-> 0 - 1, interval |-> 0 - 1,
   output |-> 0 - 1, store_index |-> 0 - 1, group_index |-> 0 - 1,
   base |-> NULL, directory |-> NULL, copy_type |-> SCR_COPY_NULL,
   er_scheme |-> 0 - 1]

scr_reddesc_init(d) ==
  [undef |-> {}, enabled |-> 0, index |-> 0 - 1, interval |-> 0 - 1,
   output |-> 0 - 1, store_index |-> 0 - 1, group_index |-> 0 - 1,
   base |-> NULL, directory |-> NULL, copy_type |-> SCR_COPY_NULL,
   er_scheme |-> 0 - 1]

(* d->field = v *)
SetField(d, field, v) ==
  [d EXCEPT ![field] = v, !.undef = @ \ {field}]

(* ----------------------- collective helpers ---------------------------- *)
(* scr_alltrue: logical AND of every rank's flag, the same on every rank *)
scr_alltrue(flags) == \A r \in Ranks : flags[r]

(* ------------------------- group registry ------------------------------ *)
GroupNames == {SCR_GROUP_NODE}

(* the ranks of r's group: the ranks on r's node *)
GroupComm(layout, r) == {q \in Ranks : layout[q] = layout[r]}

(* scr_groupdescs_from_name on rank r: NULL, or the group's descriptor    *)
(* (ranks: its size; rank: r's rank in its communicator; comm: members)   *)
scr_groupdescs_from_name(name, layout, r) ==
  IF name \in GroupNames
  THEN [found |-> TRUE,
        ranks |-> Cardinality(GroupComm(layout, r)),
        rank |-> Cardinality({q \in GroupComm(layout, r) : q < r}),
        comm |-> GroupComm(layout, r)]
  ELSE [found |-> FALSE, ranks |-> 0, rank |-> 0, comm |-> {}]

(* ------------------ scr_reddesc_create_from_hash ----------------------- *)
(* lines 189-205: rc of the two pointer checks *)
InputsValid(dNull, hashNull) == ~dNull /\ ~hashNull

(* lines 158-180: garbage is what the local copy_type holds when no       *)
(* branch assigns it                                                      *)
scr_reddesc_type_int_from_str(value, garbage) ==
  IF strcasecmp_eq(value, "SINGLE")
  THEN [rc |-> SCR_SUCCESS, type |-> SCR_COPY_SINGLE]
  ELSE IF strcasecmp_eq(value, "PARTNER")
  THEN [rc |-> SCR_SUCCESS, type |-> SCR_COPY_PARTNER]
  ELSE IF strcasecmp_eq(value, "XOR")
  THEN [rc |-> SCR_SUCCESS, type |-> SCR_COPY_XOR]
  ELSE [rc |-> SCR_FAILURE, type |-> garbage]

(* lines 218-231 *)
ReadFlags(d, idx, hash) ==
  LET d1 == SetField(d, "enabled", kvtree_util_get(hash, "ENABLED", 1))
      d2 == SetField(d1, "index", idx)
      d3 == SetField(d2, "interval", kvtree_util_get(hash, "INTERVAL", 1))
  IN SetField(d3, "output", kvtree_util_get(hash, "OUTPUT", 0))

(* ResolveStore without the disabling of lines 247 and 255 *)
ResolveStore_keeps_enabled(d, hash, storeOk) ==
  LET base == kvtree_util_get(hash, "STORE", scr_cache_base)
      d1 == SetField(d, "base", spath_strdup_reduce_str(base))
      store_index ==
        IF storeOk THEN scr_storedescs_index_from_name(d1.base) ELSE 0 - 1
  IN IF store_index >= 0 THEN SetField(d1, "store_index", store_index) ELSE d1

(* lines 233-259: storeOk is whether this rank's scr_storedescs holds the *)
(* stores                                                                 *)
ResolveStore(d, hash, storeOk) ==
  LET base == kvtree_util_get(hash, "STORE", scr_cache_base)
  IN IF base # NULL
     THEN LET d1 == SetField(d, "base", spath_strdup_reduce_str(base))
              store_index ==
                IF storeOk THEN scr_storedescs_index_from_name(d1.base)
                ELSE 0 - 1
          IN IF store_index >= 0
             THEN SetField(d1, "store_index", store_index)
             ELSE SetField(d1, "enabled", 0)
     ELSE SetField(d, "enabled", 0)

(* lines 261-268 *)
BuildDirectory(d) ==
  SetField(d, "directory",
           d.base \o "/" \o scr_username \o "/scr." \o scr_jobid)

(* lines 274-288 *)
ReadType(d, hash, garbage) ==
  LET d1 == SetField(d, "copy_type", scr_copy_type)
  IN IF kvtree_has(hash, "TYPE")
     THEN LET t == scr_reddesc_type_int_from_str(hash["TYPE"], garbage)
              d2 == SetField(d1, "copy_type", t.type)
          IN IF t.rc # SCR_SUCCESS THEN SetField(d2, "enabled", 0) ELSE d2
     ELSE d1

(* ForceSingle without the overwrite of line 303 *)
ForceSingle_skipped(d, layout, r) == d

(* lines 290-304 *)
ForceSingle(d, layout, r) ==
  LET groupdesc == scr_groupdescs_from_name(SCR_GROUP_NODE, layout, r)
  IN IF groupdesc.found /\ groupdesc.ranks = scr_ranks_world
     THEN SetField(d, "copy_type", SCR_COPY_SINGLE)
     ELSE d

(* the scr_warn calls of lines 233-304 on rank r, in order *)
WARN_STORE == "store not found"
WARN_TYPE == "unknown copy type"
WARN_SINGLE == "forced to SINGLE"

(* lines 248 and 256: every rank that fails the lookup warns *)
StoreWarnings(r, d) ==
  IF d.store_index < 0 THEN <<WARN_STORE>> ELSE <<>>

(* lines 170-174 inside scr_reddesc_type_int_from_str, then 282-286 *)
TypeWarnings(r, hash) ==
  IF kvtree_has(hash, "TYPE")
     /\ scr_reddesc_type_int_from_str(hash["TYPE"], COPY_GARBAGE).rc
          = SCR_FAILURE
     /\ r = 0
  THEN <<WARN_TYPE, WARN_TYPE>>
  ELSE <<>>

(* lines 294-301: d is the descriptor before line 303 *)
SingleWarnings(r, d, layout) ==
  LET groupdesc == scr_groupdescs_from_name(SCR_GROUP_NODE, layout, r)
  IN IF groupdesc.found /\ groupdesc.ranks = scr_ranks_world
        /\ r = 0 /\ d.copy_type # SCR_COPY_SINGLE
     THEN <<WARN_SINGLE>>
     ELSE <<>>

BuildWarnings(r, d, idx, hash, storeOk, garbage, layout) ==
  LET d1 == ResolveStore(ReadFlags(scr_reddesc_init(d), idx, hash), hash,
                         storeOk)
      d2 == ReadType(BuildDirectory(d1), hash, garbage)
  IN StoreWarnings(r, d1) \o TypeWarnings(r, hash)
       \o SingleWarnings(r, d2, layout)

(* lines 216-304 on one rank *)
BuildLocal(d, idx, hash, storeOk, garbage, layout, r) ==
  ForceSingle(
    ReadType(
      BuildDirectory(
        ResolveStore(ReadFlags(scr_reddesc_init(d), idx, hash), hash, storeOk)),
      hash, garbage),
    layout, r)

(* the copy types the switch of lines 326-336 builds a scheme for *)
SchemeTypes == {SCR_COPY_SINGLE, SCR_COPY_PARTNER, SCR_COPY_XOR}

(* DisableIfNoScheme without line 343 *)
DisableIfNoScheme_skipped(d) == d

(* lines 341-344 *)
DisableIfNoScheme(d) ==
  IF d.er_scheme = 0 - 1 THEN SetField(d, "enabled", 0) ELSE d

(* AgreeEnabled without line 348: each rank keeps its local flag *)
AgreeEnabled_local(d, all) == d

(* lines 346-349: all is the result of scr_alltrue(d->enabled) *)
AgreeEnabled(d, all) ==
  IF ~all THEN SetField(d, "enabled", 0) ELSE d

(* lines 207-213: the descriptor when some rank's input was invalid *)
RejectInputs(d, dNull) ==
  IF ~dNull THEN SetField(d, "enabled", 0) ELSE d

(* ER_Create_Scheme on one rank: a fresh handle, or -1 when it fails *)
ER_Create_Scheme(ok, next) == IF ok THEN next ELSE 0 - 1

(* a handle value the erasure library never gave out *)
WildHandle == 0 - 7

(* lines 59-71.  Reading a field nothing has assigned since SCR_MALLOC    *)
(* gives whatever the memory held: wild says it was not NULL / -1.        *)
(*   d: the descriptor afterwards (scr_free sets the pointer to NULL)     *)
(*   wild_free: free() was handed a pointer that was never allocated      *)
(*   schemes: the handles handed to ER_Free_Scheme                        *)
scr_reddesc_free(d, wild) ==
  [d |-> [d EXCEPT !.base = NULL, !.directory = NULL,
                   !.undef = @ \ {"base", "directory"}],
   wild_free |-> wild /\ ({"base", "directory"} \cap d.undef # {}),
   schemes |->
     IF "er_scheme" \in d.undef
     THEN (IF wild THEN {WildHandle} ELSE {})
     ELSE (IF d.er_scheme # 0 - 1 THEN {d.er_scheme} ELSE {})]

(* ----------------------- scr_reddescs_create --------------------------- *)
Slot(r) == scr_reddescs[r][index[r] + 1]

SetSlot(r, d) == [scr_reddescs[r] EXCEPT ![index[r] + 1] = d]

(* lines 638-640: the loop goes on to entry idx, or has ended *)
LoopPc(idx, n) == IF idx < n THEN "loop" ELSE "created"

(* lines 664-668: what create returns once the loop has ended *)
CreateRc(allValid) == IF allValid THEN SCR_SUCCESS ELSE SCR_FAILURE

(* lines 613-640 *)
CreateBegin(r) ==
  /\ pc[r] = "idle"
  /\ scr_nreddescs' = [scr_nreddescs EXCEPT ![r] = Len(reddesc_hash)]
  /\ scr_reddescs' =
       [scr_reddescs EXCEPT ![r] = [i \in 1 .. Len(reddesc_hash) |-> MallocDesc]]
  /\ all_valid' = [all_valid EXCEPT ![r] = TRUE]
  /\ index' = [index EXCEPT ![r] = 0]
  /\ pc' = [pc EXCEPT ![r] = LoopPc(0, Len(reddesc_hash))]
  /\ create_rc' = [create_rc EXCEPT ![r] = CreateRc(TRUE)]
  /\ UNCHANGED <<coll_log, reddesc_hash, node_of, store_ok, flag, failure_domain,
                 er_live, er_next, er_bad, bad_free, warn_log, selvars, appvars, storevars>>

(* lines 642-649 and 189-208: the rank enters build for entry index[r].   *)
(* hashNull: kvtree_get gave this rank no subtree for the entry.          *)
LoopHead(r) ==
  /\ pc[r] = "loop"
  /\ \E hashNull \in BOOLEAN :
       flag' = [flag EXCEPT ![r] = InputsValid(FALSE, hashNull)]
  /\ pc' = [pc EXCEPT ![r] = "alltrue1"]
  /\ coll_log' = [coll_log EXCEPT ![r] = <<"scr_alltrue">>]
  /\ UNCHANGED <<reddesc_hash, node_of, store_ok, scr_reddescs, scr_nreddescs,
                 index, all_valid, failure_domain, create_rc, er_live,
                 er_next, er_bad, bad_free, warn_log, selvars, appvars, storevars>>

(* lines 207-213, and 649-668 when build returns failure *)
AllTrue1 ==
  /\ \A r \in Ranks : pc[r] = "alltrue1"
  /\ IF scr_alltrue(flag)
     THEN /\ pc' = [r \in Ranks |-> "local"]
          /\ UNCHANGED <<scr_reddescs, all_valid, index, create_rc>>
     ELSE /\ scr_reddescs' =
               [r \in Ranks |-> SetSlot(r, RejectInputs(Slot(r), FALSE))]
          /\ all_valid' = [r \in Ranks |-> FALSE]
          /\ index' = [r \in Ranks |-> index[r] + 1]
          /\ pc' = [r \in Ranks |-> LoopPc(index[r] + 1, scr_nreddescs[r])]
          /\ create_rc' = [r \in Ranks |-> CreateRc(FALSE)]
  /\ UNCHANGED <<coll_log, reddesc_hash, node_of, store_ok, scr_nreddescs, flag,
                 failure_domain, er_live, er_next, er_bad, bad_free, warn_log,
                 selvars, appvars, storevars>>

(* lines 216-321 on rank r: up to the entry of scr_str_bcast.  An unknown *)
(* group name leaves groupdesc NULL and line 316 dereferences it.         *)
Local(r) ==
  /\ pc[r] = "local"
  /\ LET hash == reddesc_hash[index[r] + 1]
         groupname == kvtree_util_get(hash, "GROUP", scr_group)
         groupdesc == scr_groupdescs_from_name(groupname, node_of, r)
     IN \E garbage \in SchemeTypes \cup {COPY_GARBAGE} :
          /\ garbage # COPY_GARBAGE =>
               (kvtree_has(hash, "TYPE")
                /\ scr_reddesc_type_int_from_str(hash["TYPE"], garbage).rc
                     = SCR_FAILURE)
          /\ scr_reddescs' =
               [scr_reddescs EXCEPT
                  ![r] = SetSlot(r, BuildLocal(Slot(r), index[r], hash,
                                               store_ok[r], garbage,
                                               node_of, r))]
          /\ warn_log' =
               [warn_log EXCEPT
                  ![r] = @ \o BuildWarnings(r, Slot(r), index[r], hash,
                                            store_ok[r], garbage, node_of)]
          /\ IF groupdesc.found
             THEN /\ pc' = [pc EXCEPT ![r] = "bcast"]
                  /\ failure_domain' =
                       [failure_domain EXCEPT
                          ![r] = IF groupdesc.rank = 0 THEN r ELSE 0 - 1]
                  /\ coll_log' =
                       [coll_log EXCEPT ![r] = Append(@, "scr_str_bcast")]
             ELSE /\ pc' = [pc EXCEPT ![r] = "crashed"]
                  /\ UNCHANGED <<failure_domain, coll_log>>
  /\ UNCHANGED <<reddesc_hash, node_of, store_ok, scr_nreddescs, index,
                 all_valid, flag, create_rc, er_live, er_next, er_bad,
                 bad_free, selvars, appvars, storevars>>

(* lines 323-336 on one rank after the broadcast: the descriptor and      *)
(* whether the rank enters ER_Create_Scheme                               *)
EntersScheme(d) == d.copy_type \in SchemeTypes

(* lines 321-336: scr_str_bcast over the group communicator of leader     *)
(* `root`, then each member's switch on its copy type.  A member with no  *)
(* case for its copy type goes on to lines 338-347.                       *)
StrBcast(root) ==
  LET comm == GroupComm(node_of, root) IN
  /\ \A q \in comm : root <= q
  /\ \A q \in comm : pc[q] = "bcast"
  /\ failure_domain' =
       [q \in Ranks |-> IF q \in comm THEN failure_domain[root]
                        ELSE failure_domain[q]]
  /\ scr_reddescs' =
       [q \in Ranks |->
          IF q \in comm
          THEN LET d == SetField(Slot(q), "er_scheme", 0 - 1)
               IN SetSlot(q, IF EntersScheme(d) THEN d
                             ELSE DisableIfNoScheme(d))
          ELSE scr_reddescs[q]]
  /\ pc' =
       [q \in Ranks |->
          IF q \in comm
          THEN (IF EntersScheme(Slot(q)) THEN "scheme" ELSE "alltrue2")
          ELSE pc[q]]
  /\ coll_log' =
       [q \in Ranks |->
          IF q \in comm
          THEN Append(coll_log[q],
                      IF EntersScheme(Slot(q)) THEN "ER_Create_Scheme"
                      ELSE "scr_alltrue")
          ELSE coll_log[q]]
  /\ UNCHANGED <<reddesc_hash, node_of, store_ok, scr_nreddescs, index,
                 all_valid, flag, create_rc, er_live, er_next, er_bad,
                 bad_free, warn_log, selvars, appvars, storevars>>

(* lines 326-344: ER_Create_Scheme over the world communicator; ok[r] is  *)
(* whether the library built the scheme on rank r                         *)
CreateScheme ==
  /\ \A r \in Ranks : pc[r] = "scheme"
  /\ \E ok \in [Ranks -> BOOLEAN] :
       /\ scr_reddescs' =
            [r \in Ranks |->
               SetSlot(r, DisableIfNoScheme(
                            SetField(Slot(r), "er_scheme",
                                     ER_Create_Scheme(ok[r], er_next[r]))))]
       /\ er_live' =
            [r \in Ranks |->
               IF ok[r] THEN er_live[r] \cup {er_next[r]} ELSE er_live[r]]
       /\ er_next' =
            [r \in Ranks |-> IF ok[r] THEN er_next[r] + 1 ELSE er_next[r]]
  /\ pc' = [r \in Ranks |-> "alltrue2"]
  /\ coll_log' = [r \in Ranks |-> Append(coll_log[r], "scr_alltrue")]
  /\ UNCHANGED <<reddesc_hash, node_of, store_ok, scr_nreddescs, index,
                 all_valid, flag, failure_domain, create_rc, er_bad,
                 bad_free, warn_log, selvars, appvars, storevars>>

(* lines 346-351, then 660-668 *)
AllTrue2 ==
  /\ \A r \in Ranks : pc[r] = "alltrue2"
  /\ LET all == scr_alltrue([r \in Ranks |-> Slot(r).enabled # 0])
     IN scr_reddescs' =
          [r \in Ranks |-> SetSlot(r, AgreeEnabled(Slot(r), all))]
  /\ index' = [r \in Ranks |-> index[r] + 1]
  /\ pc' = [r \in Ranks |-> LoopPc(index[r] + 1, scr_nreddescs[r])]
  /\ create_rc' = [r \in Ranks |-> CreateRc(all_valid[r])]
  /\ UNCHANGED <<coll_log, reddesc_hash, node_of, store_ok, scr_nreddescs, all_valid,
                 flag, failure_domain, er_live, er_next, er_bad, bad_free, warn_log,
                 selvars, appvars, storevars>>

(* ------------------------ scr_reddescs_free ---------------------------- *)
(* lines 672-689 on rank r *)
FreeTable(r) ==
  /\ pc[r] = "created"
  /\ \E wild \in BOOLEAN :
       LET n == IF scr_nreddescs[r] > 0 THEN scr_nreddescs[r] ELSE 0
           res == [i \in 1 .. n |-> scr_reddesc_free(scr_reddescs[r][i], wild)]
           freed == UNION {res[i].schemes : i \in 1 .. n}
       IN /\ wild => \E i \in 1 .. n : scr_reddescs[r][i].undef # {}
          /\ bad_free' =
               [bad_free EXCEPT
                  ![r] = @ \/ \E i \in 1 .. n : res[i].wild_free]
          /\ er_bad' = [er_bad EXCEPT ![r] = @ \/ ~(freed \subseteq er_live[r])]
          /\ er_live' = [er_live EXCEPT ![r] = @ \ freed]
  /\ scr_nreddescs' = [scr_nreddescs EXCEPT ![r] = 0]
  /\ scr_reddescs' = [scr_reddescs EXCEPT ![r] = <<>>]
  /\ pc' = [pc EXCEPT ![r] = "freed"]
  /\ UNCHANGED <<coll_log, warn_log, reddesc_hash, node_of, store_ok, index,
                 all_valid, flag,
                 failure_domain, create_rc, er_next, selvars, appvars, storevars>>

(* lines 59-71 called by rank r on slot i of its table, which stays in    *)
(* place: er_scheme keeps the handle that was freed                       *)
FreeDesc(r, i) ==
  /\ pc[r] = "created"
  /\ i \in 1 .. scr_nreddescs[r]
  /\ \E wild \in BOOLEAN :
       LET res == scr_reddesc_free(scr_reddescs[r][i], wild)
       IN /\ wild => scr_reddescs[r][i].undef # {}
          /\ bad_free' = [bad_free EXCEPT ![r] = @ \/ res.wild_free]
          /\ er_bad' =
               [er_bad EXCEPT ![r] = @ \/ ~(res.schemes \subseteq er_live[r])]
          /\ er_live' = [er_live EXCEPT ![r] = @ \ res.schemes]
          /\ scr_reddescs' = [scr_reddescs EXCEPT ![r][i] = res.d]
  /\ UNCHANGED <<pc, scr_nreddescs, coll_log, warn_log, reddesc_hash, node_of,
                 store_ok,
                 index, all_valid, flag, failure_domain, create_rc, er_next,
                 selvars, appvars, storevars>>

(* ---------------------- scr_reddesc_store_to_hash ---------------------- *)
(* lines 139-151: the TYPE key the switch sets, none for any other value *)
TypeKey(copy_type) ==
  CASE copy_type = SCR_COPY_SINGLE -> "TYPE" :> "SINGLE"
    [] copy_type = SCR_COPY_PARTNER -> "TYPE" :> "PARTNER"
    [] copy_type = SCR_COPY_XOR -> "TYPE" :> "XOR"
    [] OTHER -> <<>>

(* scr_reddesc_store_to_hash without the OUTPUT key of line 123 *)
scr_reddesc_store_to_hash_no_output(d) ==
  ("ENABLED" :> d.enabled) @@ ("INTERVAL" :> d.interval)
  @@ (IF d.base # NULL THEN "STORE" :> d.base ELSE <<>>)
  @@ (IF d.directory # NULL THEN "DIRECTORY" :> d.directory ELSE <<>>)
  @@ TypeKey(d.copy_type)

(* lines 102-155: the hash after kvtree_unset_all and the sets *)
scr_reddesc_store_to_hash(d) ==
  ("ENABLED" :> d.enabled) @@ ("INTERVAL" :> d.interval)
  @@ ("OUTPUT" :> d.output)
  @@ (IF d.base # NULL THEN "STORE" :> d.base ELSE <<>>)
  @@ (IF d.directory # NULL THEN "DIRECTORY" :> d.directory ELSE <<>>)
  @@ TypeKey(d.copy_type)

(* global default of the XOR set size *)
scr_set_size == 8

(* lines 270-272 *)
ReadSetSize(hash) == kvtree_util_get(hash, "SET_SIZE", scr_set_size)

(* lines 326-336: the last two arguments of ER_Create_Scheme for a copy   *)
(* type of SchemeTypes; set_size is the local of lines 271-272            *)
SchemeRequest(copy_type, set_size) ==
  CASE copy_type = SCR_COPY_SINGLE -> <<scr_ranks_world, 0>>
    [] copy_type = SCR_COPY_PARTNER -> <<scr_ranks_world, scr_ranks_world>>
    [] copy_type = SCR_COPY_XOR -> <<scr_ranks_world, 1>>

(* lines 216-349 as rank 0 runs them for st_cfg when every rank builds    *)
(* the same descriptor: schemeOk is whether ER_Create_Scheme succeeded    *)
StoreBuild ==
  /\ st_pc = "ready"
  /\ \E schemeOk \in BOOLEAN :
     \E garbage \in SchemeTypes \cup {COPY_GARBAGE} :
       LET d1 == BuildLocal(MallocDesc, 0, st_cfg, TRUE, garbage, node_of, 0)
           d2 == IF d1.copy_type \in SchemeTypes
                 THEN SetField(d1, "er_scheme", ER_Create_Scheme(schemeOk, 0))
                 ELSE d1
           d3 == DisableIfNoScheme(d2)
       IN /\ garbage # COPY_GARBAGE =>
               (kvtree_has(st_cfg, "TYPE")
                /\ scr_reddesc_type_int_from_str(st_cfg["TYPE"], garbage).rc
                     = SCR_FAILURE)
          /\ st_desc' = AgreeEnabled(d3, d3.enabled # 0)
          /\ st_req' = IF d1.copy_type \in SchemeTypes
                       THEN SchemeRequest(d1.copy_type, ReadSetSize(st_cfg))
                       ELSE <<>>
  /\ st_pc' = "built"
  /\ UNCHANGED <<st_cfg, st_hash, buildvars, selvars, appvars>>

StoreToHash ==
  /\ st_pc = "built"
  /\ st_hash' = scr_reddesc_store_to_hash(st_desc)
  /\ st_pc' = "done"
  /\ UNCHANGED <<st_cfg, st_desc, st_req, buildvars, selvars, appvars>>

(* -------------------- scr_reddesc_for_checkpoint ----------------------- *)
(* C's a % b for a >= 0 and b # 0: the sign of the result is that of a *)
CRem(a, b) == a % (IF b < 0 THEN 0 - b ELSE b)

(* lines 89-91: the test of one loop iteration; && evaluates the modulus  *)
(* only when the interval is above the current one, which is >= 0         *)
Accepts(desc, interval, id) ==
  /\ desc.enabled # 0
  /\ interval < desc.interval
  /\ CRem(id, desc.interval) = 0

(* lines 87-96 from iteration i on (descs[i] is the C descs[i - 1]); d is *)
(* the index selected so far, -1 for NULL                                 *)
RECURSIVE SelectLoop(_, _, _, _, _)
SelectLoop(id, descs, i, d, interval) ==
  IF i > Len(descs) THEN d
  ELSE IF Accepts(descs[i], interval, id)
       THEN SelectLoop(id, descs, i + 1, i - 1, descs[i].interval)
       ELSE SelectLoop(id, descs, i + 1, d, interval)

(* lines 75-98 *)
scr_reddesc_for_checkpoint(id, descs) == SelectLoop(id, descs, 1, 0 - 1, 0)

Select ==
  /\ sel_pc = "ready"
  /\ sel_d' = scr_reddesc_for_checkpoint(sel_id, sel_descs)
  /\ sel_pc' = "done"
  /\ UNCHANGED <<sel_descs, sel_id, buildvars, appvars, storevars>>

(* ------------------------ scr_reddesc_get_store ------------------------ *)
(* lines 356-382: the index of the store, or -1 for NULL *)
scr_reddesc_get_store(desc) ==
  IF desc.enabled = 0 THEN 0 - 1
  ELSE IF desc.store_index < 0 \/ desc.store_index >= scr_nstoredescs
  THEN 0 - 1
  ELSE IF ~scr_storedescs[desc.store_index + 1].enabled THEN 0 - 1
  ELSE desc.store_index

(* -------------------------- scr_reddesc_apply -------------------------- *)
(* lines 428-458 from file i on: have[i] is scr_bool_have_file, addOk[i]  *)
(* whether ER_Add succeeded; acc holds valid and my_bytes                 *)
RECURSIVE ScanFiles(_, _, _, _, _)
ScanFiles(fs, have, addOk, i, acc) ==
  IF i > Len(fs) THEN acc
  ELSE ScanFiles(fs, have, addOk, i + 1,
                 [valid |-> acc.valid /\ have[i] /\ addOk[i],
                  my_bytes |-> acc.my_bytes + fs[i]])

(* AddMapFile with the filemap file counted into my_bytes *)
AddMapFile_counted(acc, mapOk) ==
  [valid |-> acc.valid /\ mapOk, my_bytes |-> acc.my_bytes + 1]

(* lines 460-466 *)
AddMapFile(acc, mapOk) == [acc EXCEPT !.valid = @ /\ mapOk]

(* ER_Create on one rank: a set id, or a negative value when it fails *)
ER_Create(ok) == IF ok THEN 0 ELSE 0 - 1

(* lines 402-471 on rank r, up to the entry of scr_alltrue.  With no      *)
(* store for the descriptor, line 415 reads store->comm through NULL.     *)
ApplyLocal(r) ==
  /\ op = "apply"
  /\ apc[r] = "start"
  /\ bytes' = [bytes EXCEPT ![r] = 0]
  /\ IF scr_reddesc_get_store(app_desc) = 0 - 1
     THEN /\ apc' = [apc EXCEPT ![r] = "crashed"]
          /\ UNCHANGED <<set_id, valid, my_bytes, er_log>>
     ELSE \E createOk, mapOk \in BOOLEAN :
          \E have, addOk \in [1 .. Len(files[r]) -> BOOLEAN] :
            LET acc == AddMapFile(
                         ScanFiles(files[r], have, addOk, 1,
                                   [valid |-> TRUE, my_bytes |-> 0]),
                         mapOk)
            IN /\ set_id' = [set_id EXCEPT ![r] = ER_Create(createOk)]
               /\ valid' = [valid EXCEPT ![r] = acc.valid]
               /\ my_bytes' = [my_bytes EXCEPT ![r] = acc.my_bytes]
               /\ er_log' =
                    [er_log EXCEPT
                       ![r] = <<"ER_Create">>
                                \o [i \in 1 .. Len(files[r]) + 1 |-> "ER_Add"]]
               /\ apc' = [apc EXCEPT ![r] = "allvalid"]
  /\ UNCHANGED <<op, app_desc, files, rc, ret, er_ok, buildvars, selvars, storevars>>

(* EveryoneValid deciding on the flag of rank 0 alone *)
EveryoneValid_rank0(flags) == flags[0]

(* line 471 *)
EveryoneValid(flags) == scr_alltrue(flags)

(* GoesOn taking the branch of line 472 on the rank's own flag *)
GoesOn_local_flag(flags, r) == flags[r]

(* line 472 on rank r: all_valid is what scr_alltrue returned to it *)
GoesOn(flags, r) == EveryoneValid(flags)

(* lines 470-478 *)
ApplyAllValid ==
  /\ \A r \in Ranks : apc[r] = "allvalid"
  /\ apc' = [r \in Ranks |-> IF GoesOn(valid, r) THEN "encode" ELSE "done"]
  /\ ret' = [r \in Ranks |-> IF GoesOn(valid, r) THEN ret[r] ELSE SCR_FAILURE]
  /\ er_log' =
       [r \in Ranks |->
          IF GoesOn(valid, r) THEN er_log[r] ELSE Append(er_log[r], "ER_Free")]
  /\ UNCHANGED <<op, app_desc, files, set_id, valid, my_bytes, rc, bytes,
                 er_ok, buildvars, selvars, storevars>>

(* EncodeRc with the result of ER_Free ignored *)
EncodeRc_ignores_free(ok) ==
  IF ok.dispatch /\ ok.wait THEN SCR_SUCCESS ELSE SCR_FAILURE

(* lines 488-501: rc after the three calls *)
EncodeRc(ok) ==
  IF ok.dispatch /\ ok.wait /\ ok.free THEN SCR_SUCCESS ELSE SCR_FAILURE

(* EncodeCalls with the set freed before it is dispatched *)
EncodeCalls_free_first == <<"ER_Free", "ER_Dispatch", "ER_Wait">>

(* lines 489-500: the calls on the set, in order *)
EncodeCalls == <<"ER_Dispatch", "ER_Wait", "ER_Free">>

(* lines 488-510 on rank r, up to the entry of scr_alltrue *)
ApplyEncode(r) ==
  /\ op = "apply"
  /\ apc[r] = "encode"
  /\ \E ok \in [dispatch : BOOLEAN, wait : BOOLEAN, free : BOOLEAN] :
       /\ er_ok' = [er_ok EXCEPT ![r] = ok]
       /\ rc' = [rc EXCEPT ![r] = EncodeRc(ok)]
  /\ er_log' =
       [er_log EXCEPT ![r] = @ \o EncodeCalls]
  /\ apc' = [apc EXCEPT ![r] = "allcopy"]
  /\ UNCHANGED <<op, app_desc, files, set_id, valid, my_bytes, ret, bytes,
                 buildvars, selvars, storevars>>

(* MPI_Allreduce with MPI_SUM over the world *)
RECURSIVE SumUpTo(_, _)
SumUpTo(f, r) == IF r < 0 THEN 0 ELSE f[r] + SumUpTo(f, r - 1)

MPI_Allreduce_SUM(f) == SumUpTo(f, NumRanks - 1)

(* lines 503-511: what apply returns *)
ApplyRc(flags) == IF scr_alltrue(flags) THEN SCR_SUCCESS ELSE SCR_FAILURE

(* lines 510-533 *)
ApplyAllCopy ==
  /\ \A r \in Ranks : apc[r] = "allcopy"
  /\ ret' = [r \in Ranks |-> ApplyRc([q \in Ranks |-> rc[q] = SCR_SUCCESS])]
  /\ bytes' = [r \in Ranks |-> MPI_Allreduce_SUM(my_bytes)]
  /\ apc' = [r \in Ranks |-> "done"]
  /\ UNCHANGED <<op, app_desc, files, set_id, valid, my_bytes, rc, er_ok,
                 er_log, buildvars, selvars, storevars>>

(* ------------------------- scr_reddesc_recover ------------------------- *)
(* lines 556-566: rc of recover after the three calls *)
RecoverRc(ok) == IF ok.dispatch /\ ok.wait THEN SCR_SUCCESS ELSE SCR_FAILURE

(* lines 538-567 on rank r.  found: scr_storedescs_index_from_child_path  *)
(* matched a store; otherwise line 546 takes the address of               *)
(* scr_storedescs[-1] and line 552 reads its comm, which crashes or       *)
(* hands ER_Create whatever the memory held.                              *)
Recover(r) ==
  /\ op = "recover"
  /\ apc[r] = "start"
  /\ \E found, crash \in BOOLEAN :
       /\ crash => ~found
       /\ IF crash
          THEN /\ apc' = [apc EXCEPT ![r] = "crashed"]
               /\ UNCHANGED <<set_id, rc, ret, er_ok, er_log>>
          ELSE \E createOk \in BOOLEAN :
               \E ok \in [dispatch : BOOLEAN, wait : BOOLEAN, free : BOOLEAN] :
                 /\ set_id' = [set_id EXCEPT ![r] = ER_Create(createOk)]
                 /\ er_ok' = [er_ok EXCEPT ![r] = ok]
                 /\ rc' = [rc EXCEPT ![r] = RecoverRc(ok)]
                 /\ ret' = [ret EXCEPT ![r] = RecoverRc(ok)]
                 /\ er_log' =
                      [er_log EXCEPT
                         ![r] = <<"ER_Create", "ER_Dispatch", "ER_Wait",
                                  "ER_Free">>]
                 /\ apc' = [apc EXCEPT ![r] = "done"]
  /\ UNCHANGED <<op, app_desc, files, valid, my_bytes, bytes, buildvars,
                 selvars, storevars>>

(* ------------------------- scr_reddesc_unapply ------------------------- *)
(* lines 572-603: rc of unapply *)
UnapplyRc(set, ok) ==
  IF set >= 0 /\ ok.dispatch /\ ok.wait /\ ok.free
  THEN SCR_SUCCESS ELSE SCR_FAILURE

(* lines 570-604 on rank r; found as in Recover *)
Unapply(r) ==
  /\ op = "unapply"
  /\ apc[r] = "start"
  /\ \E found, crash \in BOOLEAN :
       /\ crash => ~found
       /\ IF crash
          THEN /\ apc' = [apc EXCEPT ![r] = "crashed"]
               /\ UNCHANGED <<set_id, rc, ret, er_ok, er_log>>
          ELSE \E createOk \in BOOLEAN :
               \E ok \in [dispatch : BOOLEAN, wait : BOOLEAN, free : BOOLEAN] :
                 /\ set_id' = [set_id EXCEPT ![r] = ER_Create(createOk)]
                 /\ er_ok' = [er_ok EXCEPT ![r] = ok]
                 /\ rc' = [rc EXCEPT ![r] = UnapplyRc(ER_Create(createOk), ok)]
                 /\ ret' = [ret EXCEPT ![r] = UnapplyRc(ER_Create(createOk), ok)]
                 /\ er_log' =
                      [er_log EXCEPT
                         ![r] = <<"ER_Create", "ER_Dispatch", "ER_Wait",
                                  "ER_Free">>]
                 /\ apc' = [apc EXCEPT ![r] = "done"]
  /\ UNCHANGED <<op, app_desc, files, valid, my_bytes, bytes, buildvars,
                 selvars, storevars>>

(* --------------------------- specifications ---------------------------- *)
IdleBuild ==
  /\ pc = [r \in Ranks |-> "idle"]
  /\ scr_reddescs = [r \in Ranks |-> <<>>]
  /\ scr_nreddescs = [r \in Ranks |-> 0]
  /\ index = [r \in Ranks |-> 0]
  /\ all_valid = [r \in Ranks |-> TRUE]
  /\ flag = [r \in Ranks |-> TRUE]
  /\ failure_domain = [r \in Ranks |-> 0 - 1]
  /\ create_rc = [r \in Ranks |-> SCR_SUCCESS]
  /\ er_live = [r \in Ranks |-> {}]
  /\ er_next = [r \in Ranks |-> 0]
  /\ er_bad = [r \in Ranks |-> FALSE]
  /\ bad_free = [r \in Ranks |-> FALSE]
  /\ coll_log = [r \in Ranks |-> <<>>]
  /\ warn_log = [r \in Ranks |-> <<>>]

AllOk == [dispatch |-> TRUE, wait |-> TRUE, free |-> TRUE]

IdleStore ==
  /\ st_pc = "idle"
  /\ st_cfg = <<>>
  /\ st_desc = MallocDesc
  /\ st_hash = <<>>
  /\ st_req = <<>>

IdleSelect ==
  /\ sel_pc = "idle"
  /\ sel_descs = <<>>
  /\ sel_id = 0
  /\ sel_d = 0 - 1

IdleApply ==
  /\ op = "none"
  /\ apc = [r \in Ranks |-> "idle"]
  /\ app_desc = scr_reddesc_init(MallocDesc)
  /\ files = [r \in Ranks |-> <<>>]
  /\ set_id = [r \in Ranks |-> 0 - 1]
  /\ valid = [r \in Ranks |-> TRUE]
  /\ my_bytes = [r \in Ranks |-> 0]
  /\ rc = [r \in Ranks |-> SCR_SUCCESS]
  /\ ret = [r \in Ranks |-> "none"]
  /\ bytes = [r \in Ranks |-> 0]
  /\ er_ok = [r \in Ranks |-> AllOk]
  /\ er_log = [r \in Ranks |-> <<>>]

Init ==
  /\ IdleBuild
  /\ node_of \in NodeLayouts
  /\ store_ok \in [Ranks -> BOOLEAN]
  /\ reddesc_hash \in {<<c>> : c \in Configs}
  /\ IdleSelect
  /\ IdleApply
  /\ IdleStore

Next ==
  \/ \E r \in Ranks : CreateBegin(r)
  \/ \E r \in Ranks : LoopHead(r)
  \/ AllTrue1
  \/ \E r \in Ranks : Local(r)
  \/ \E r \in Ranks : StrBcast(r)
  \/ CreateScheme
  \/ AllTrue2

Spec == Init /\ [][Next]_vars

InitTable ==
  /\ IdleBuild
  /\ node_of \in NodeLayouts
  /\ store_ok = [r \in Ranks |-> TRUE]
  /\ reddesc_hash \in UNION {[1 .. n -> TableConfigs] : n \in 0 .. MaxDescs}
  /\ IdleSelect
  /\ IdleApply
  /\ IdleStore

NextTable ==
  \/ Next
  \/ \E r \in Ranks : FreeTable(r)

SpecTable == InitTable /\ [][NextTable]_vars

(* scr_reddescs_create, then scr_reddesc_free on single descriptors and   *)
(* scr_reddescs_free in any order                                         *)
NextFree ==
  \/ NextTable
  \/ \E r \in Ranks : \E i \in 1 .. MaxDescs : FreeDesc(r, i)

SpecFree == InitTable /\ [][NextFree]_vars

(* a descriptor as build leaves it for the ENABLED and INTERVAL of cfg    *)
(* when the store resolves and the scheme is built on every rank          *)
BuiltDesc(idx, cfg) ==
  SetField(
    BuildLocal(MallocDesc, idx, cfg, TRUE, COPY_GARBAGE,
               [r \in Ranks |-> r], 0),
    "er_scheme", idx)

IdleRanks ==
  /\ IdleBuild
  /\ node_of = [r \in Ranks |-> r]
  /\ store_ok = [r \in Ranks |-> TRUE]
  /\ reddesc_hash = <<>>

InitSelect ==
  /\ IdleRanks
  /\ IdleApply
  /\ IdleStore
  /\ sel_pc = "ready"
  /\ sel_id \in 1 .. MaxId
  /\ sel_d = 0 - 1
  /\ \E n \in 0 .. MaxDescs :
       \E cfg \in [1 .. n -> SelectConfigs] :
         sel_descs = [i \in 1 .. n |-> BuiltDesc(i - 1, cfg[i])]

SpecSelect == InitSelect /\ [][Select]_vars

OutputVals == {1}

RoundTripStores == {"/ssd/", "/ram", "/no/such"}

RoundTripIntervals == {3}

SetSizeVals == {4, 6}

RoundTripConfigs ==
  { KVOpt("ENABLED", e) @@ KVOpt("INTERVAL", i) @@ KVOpt("OUTPUT", o)
      @@ KVOpt("STORE", st) @@ KVOpt("TYPE", t) @@ KVOpt("SET_SIZE", z)
    : e \in Opt(EnabledVals), i \in Opt(RoundTripIntervals),
      o \in Opt(OutputVals), st \in Opt(RoundTripStores),
      t \in Opt(TypeVals), z \in Opt(SetSizeVals) }

InitStore ==
  /\ IdleBuild
  /\ node_of \in NodeLayouts
  /\ store_ok = [r \in Ranks |-> TRUE]
  /\ reddesc_hash = <<>>
  /\ IdleSelect
  /\ IdleApply
  /\ st_pc = "ready"
  /\ st_cfg \in RoundTripConfigs
  /\ st_desc = MallocDesc
  /\ st_hash = <<>>
  /\ st_req = <<>>

NextStore == StoreBuild \/ StoreToHash

SpecStore == InitStore /\ [][NextStore]_vars

FileSizes == {1, 2}

FileLists == UNION {[1 .. n -> FileSizes] : n \in 0 .. MaxFiles}

(* descriptors apply may be handed: enabled or not, store_index in and    *)
(* out of the range of scr_storedescs                                     *)
ApplyDescs ==
  { [BuiltDesc(0, KVOpt("ENABLED", e)) EXCEPT !.store_index = si]
    : e \in Opt(EnabledVals), si \in (0 - 1) .. scr_nstoredescs }

InitApply ==
  /\ IdleRanks
  /\ IdleSelect
  /\ IdleStore
  /\ op \in {"apply", "recover", "unapply"}
  /\ apc = [r \in Ranks |-> "start"]
  /\ app_desc \in ApplyDescs
  /\ files \in [Ranks -> FileLists]
  /\ op # "apply" =>
       /\ app_desc = BuiltDesc(0, <<>>)
       /\ files = [r \in Ranks |-> <<>>]
  /\ scr_reddesc_get_store(app_desc) = 0 - 1 => files = [r \in Ranks |-> <<>>]
  /\ set_id = [r \in Ranks |-> 0 - 1]
  /\ valid = [r \in Ranks |-> TRUE]
  /\ my_bytes = [r \in Ranks |-> 0]
  /\ rc = [r \in Ranks |-> SCR_SUCCESS]
  /\ ret = [r \in Ranks |-> "none"]
  /\ bytes = [r \in Ranks |-> 0]
  /\ er_ok = [r \in Ranks |-> AllOk]
  /\ er_log = [r \in Ranks |-> <<>>]

NextApply ==
  \/ \E r \in Ranks : ApplyLocal(r)
  \/ ApplyAllValid
  \/ \E r \in Ranks : ApplyEncode(r)
  \/ ApplyAllCopy
  \/ \E r \in Ranks : Recover(r)
  \/ \E r \in Ranks : Unapply(r)

SpecApply == InitApply /\ [][NextApply]_vars

(* every rank keeps running its own code, and a collective returns once   *)
(* every rank has entered it                                              *)
FairApply ==
  /\ \A r \in Ranks : WF_vars(ApplyLocal(r)) /\ WF_vars(ApplyEncode(r))
  /\ WF_vars(ApplyAllValid)
  /\ WF_vars(ApplyAllCopy)

SpecApplyLive == SpecApply /\ FairApply

(* ========================== properties ================================ *)
(* the descriptors of rank r's table that build has filled in *)
BuiltSlots(r) ==
  {i \in 1 .. Len(scr_reddescs[r]) : scr_reddescs[r][i].undef = {}}

AllCreated == \A r \in Ranks : pc[r] = "created"

(* the store name of entry i does not resolve on rank r *)
StoreUnresolved(r, i) ==
  \/ ~store_ok[r]
  \/ scr_storedescs_index_from_name(
       spath_strdup_reduce_str(
         kvtree_util_get(reddesc_hash[i], "STORE", scr_cache_base))) < 0

(* C1: once build has returned on every rank, every rank holds the same   *)
(* enabled flag for the descriptor, and the flag is 0 on every rank when  *)
(* some rank's store lookup or scheme build failed.                       *)
C1_ConsensusOnEnabled ==
  AllCreated =>
    \A i \in 1 .. Len(reddesc_hash) :
      /\ \A r, q \in Ranks :
           /\ "enabled" \notin scr_reddescs[r][i].undef
           /\ scr_reddescs[r][i].enabled = scr_reddescs[q][i].enabled
      /\ (\E r \in Ranks :
            \/ scr_reddescs[r][i].store_index = 0 - 1
            \/ scr_reddescs[r][i].er_scheme = 0 - 1)
         => \A q \in Ranks : scr_reddescs[q][i].enabled = 0

(* build has returned everywhere after the scheme was built on rank 1 and *)
(* refused on rank 0                                                      *)
C1_Witness ==
  /\ AllCreated
  /\ Len(reddesc_hash) = 1
  /\ \A r \in Ranks : scr_reddescs[r][1].undef = {}
  /\ \A r \in Ranks : scr_reddescs[r][1].store_index >= 0
  /\ scr_reddescs[0][1].er_scheme = 0 - 1
  /\ scr_reddescs[1][1].er_scheme >= 0
  /\ \A r \in Ranks : scr_reddescs[r][1].enabled = 0

(* C7: when the NODE group holds every rank, every descriptor build has   *)
(* filled in has copy_type SCR_COPY_SINGLE on every rank, whatever TYPE   *)
(* the configuration gives.                                               *)
C7_SingleNodeForce ==
  \A r \in Ranks :
    Cardinality(GroupComm(node_of, r)) = scr_ranks_world =>
      \A i \in BuiltSlots(r) :
        scr_reddescs[r][i].copy_type = SCR_COPY_SINGLE

(* a single-node job whose configuration asks for a type that is not      *)
(* SINGLE has built its descriptor                                        *)
C7_Witness ==
  /\ AllCreated
  /\ Len(reddesc_hash) = 1
  /\ kvtree_has(reddesc_hash[1], "TYPE")
  /\ reddesc_hash[1]["TYPE"] \in {"Partner", "xor", "RAID5"}
  /\ \A r \in Ranks :
       /\ Cardinality(GroupComm(node_of, r)) = scr_ranks_world
       /\ scr_reddescs[r][1].undef = {}
       /\ scr_reddescs[r][1].copy_type = SCR_COPY_SINGLE

(* C8 as stated: when the store does not resolve, the descriptor is       *)
(* disabled on every rank and no erasure scheme is allocated for it       *)
(* (ER_Create_Scheme not invoked, er_scheme stays -1).                    *)
C8_UnknownStoreNoScheme ==
  AllCreated =>
    \A i \in 1 .. Len(reddesc_hash) :
      (\A r \in Ranks : i \in BuiltSlots(r) /\ StoreUnresolved(r, i)) =>
        \A q \in Ranks :
          /\ scr_reddescs[q][i].enabled = 0
          /\ scr_reddescs[q][i].er_scheme = 0 - 1
          /\ er_live[q] = {}

(* C8 amended: when the store does not resolve on some rank, the          *)
(* descriptor is disabled on every rank and that rank's store_index stays *)
(* -1; the erasure scheme is requested all the same: every rank whose     *)
(* copy type is SINGLE, PARTNER or XOR has entered ER_Create_Scheme, and  *)
(* er_scheme holds what it returned (-1 or a live handle).                *)
C8_UnknownStoreDisables ==
  AllCreated =>
    \A i \in 1 .. Len(reddesc_hash) :
      \A r \in Ranks :
        (i \in BuiltSlots(r) /\ StoreUnresolved(r, i)) =>
          /\ scr_reddescs[r][i].store_index = 0 - 1
          /\ \A q \in Ranks :
               /\ scr_reddescs[q][i].enabled = 0
               /\ scr_reddescs[q][i].copy_type \in SchemeTypes
                    => \E k \in 1 .. Len(coll_log[q]) :
                         coll_log[q][k] = "ER_Create_Scheme"
               /\ scr_reddescs[q][i].er_scheme # 0 - 1
                    => scr_reddescs[q][i].er_scheme \in er_live[q]

(* the store did not resolve anywhere, build returned, and rank 0 holds a *)
(* scheme handle for the disabled descriptor                              *)
C8_Witness ==
  /\ AllCreated
  /\ Len(reddesc_hash) = 1
  /\ \A r \in Ranks : 1 \in BuiltSlots(r) /\ StoreUnresolved(r, 1)
  /\ \A r \in Ranks : scr_reddescs[r][1].enabled = 0
  /\ scr_reddescs[0][1].er_scheme \in er_live[0]

(* C9: when a descriptor construction failed, create reports failure and  *)
(* every slot of the table holds a base, a directory and an er_scheme     *)
(* that are NULL / -1 or were obtained during build, so that              *)
(* scr_reddescs_free releases nothing that was not allocated.             *)
C9_FailedTableFreeable ==
  \A r \in Ranks :
    create_rc[r] = SCR_FAILURE =>
      /\ pc[r] = "created" =>
           \A i \in 1 .. Len(scr_reddescs[r]) :
             {"base", "directory", "er_scheme"}
               \cap scr_reddescs[r][i].undef = {}
      /\ pc[r] = "freed" => ~bad_free[r] /\ ~er_bad[r]

(* C10: a descriptor that leaves build enabled has a resolved store and a *)
(* scheme handle the erasure library gave out.                            *)
C10_EnabledImpliesUsable ==
  \A r \in Ranks :
    pc[r] = "created" =>
      \A i \in 1 .. Len(scr_reddescs[r]) :
        scr_reddescs[r][i].enabled # 0 =>
          /\ scr_reddescs[r][i].undef = {}
          /\ scr_reddescs[r][i].store_index >= 0
          /\ scr_reddescs[r][i].er_scheme >= 0
          /\ scr_reddescs[r][i].er_scheme \in er_live[r]

(* build has returned an enabled descriptor on every rank *)
C10_Witness ==
  /\ AllCreated
  /\ Len(reddesc_hash) = 1
  /\ \A r \in Ranks : scr_reddescs[r][1].enabled = 1

(* ------------------------------- interval ------------------------------ *)
(* C15: every descriptor that is enabled after build has interval >= 1,   *)
(* whatever INTERVAL the configuration gives.                             *)
C15_EnabledIntervalPositive ==
  \A r \in Ranks :
    pc[r] = "created" =>
      \A i \in 1 .. Len(scr_reddescs[r]) :
        ("enabled" \notin scr_reddescs[r][i].undef
         /\ scr_reddescs[r][i].enabled # 0)
        => scr_reddescs[r][i].interval >= 1

(* ----------------------------- unknown group --------------------------- *)
GroupUnresolved(r, i) ==
  /\ i \in 1 .. Len(reddesc_hash)
  /\ ~scr_groupdescs_from_name(
        kvtree_util_get(reddesc_hash[i], "GROUP", scr_group), node_of, r).found

(* C14: when the GROUP name of a descriptor does not resolve, no rank     *)
(* crashes in build, and once build has returned the descriptor is        *)
(* disabled on every rank.                                                *)
C14_UnknownGroupDisables ==
  \A r \in Ranks :
    /\ pc[r] # "crashed"
    /\ \A i \in 1 .. Len(scr_reddescs[r]) :
         (pc[r] = "created" /\ GroupUnresolved(r, i)) =>
           \A q \in Ranks : scr_reddescs[q][i].enabled = 0

(* ---------------------------- scheme handles --------------------------- *)
(* every slot of every table holds assigned fields only *)
NoIndeterminateSlot ==
  \A r \in Ranks : \A i \in 1 .. Len(scr_reddescs[r]) :
    scr_reddescs[r][i].undef = {}

HoldsFreedHandle(r, i) ==
  /\ "er_scheme" \notin scr_reddescs[r][i].undef
  /\ scr_reddescs[r][i].er_scheme # 0 - 1
  /\ scr_reddescs[r][i].er_scheme \notin er_live[r]

(* C11: over any sequence of scr_reddescs_create, scr_reddesc_free and    *)
(* scr_reddescs_free, no handle of ER_Create_Scheme is handed to          *)
(* ER_Free_Scheme twice, none is left live once the table is freed, and   *)
(* a descriptor whose scheme was freed holds er_scheme = -1.  Stated for  *)
(* tables whose slots were all initialised by build.                      *)
C11_HandlesFreedOnce ==
  NoIndeterminateSlot =>
    \A r \in Ranks :
      /\ ~er_bad[r]
      /\ pc[r] = "freed" => er_live[r] = {}
      /\ \A i \in 1 .. Len(scr_reddescs[r]) : ~HoldsFreedHandle(r, i)

(* ------------------------------ round trip ----------------------------- *)
RoundTripKeys == {"ENABLED", "INTERVAL", "OUTPUT", "STORE", "TYPE"}

(* build accepts every value of cfg: the TYPE parses and the STORE        *)
(* resolves                                                               *)
ValidConfig(cfg) ==
  /\ kvtree_has(cfg, "TYPE") =>
       scr_reddesc_type_int_from_str(cfg["TYPE"], COPY_GARBAGE).rc
         = SCR_SUCCESS
  /\ kvtree_has(cfg, "STORE") =>
       scr_storedescs_index_from_name(spath_strdup_reduce_str(cfg["STORE"]))
         >= 0

AllOnOneNode == \A r \in Ranks : node_of[r] = node_of[0]

(* C12 as stated: for every valid cfg, the serialized descriptor holds    *)
(* each of ENABLED, INTERVAL, OUTPUT, STORE, TYPE present in cfg with the *)
(* value cfg gives it.                                                    *)
C12_RoundTripSameValues ==
  (st_pc = "done" /\ ValidConfig(st_cfg)) =>
    \A k \in RoundTripKeys \cap DOMAIN st_cfg :
      kvtree_has(st_hash, k) /\ st_hash[k] = st_cfg[k]

(* C12 amended: for every valid cfg the serialized descriptor holds       *)
(* INTERVAL and OUTPUT as in cfg, ENABLED as in cfg unless build disabled *)
(* the descriptor (then 0), STORE as the reduced path of cfg's value, and *)
(* TYPE as the upper-case token of cfg's value, or SINGLE when all ranks  *)
(* share one node.                                                        *)
C12_RoundTripCanonical ==
  (st_pc = "done" /\ ValidConfig(st_cfg)) =>
    /\ \A k \in {"INTERVAL", "OUTPUT"} \cap DOMAIN st_cfg :
         kvtree_has(st_hash, k) /\ st_hash[k] = st_cfg[k]
    /\ kvtree_has(st_cfg, "ENABLED") =>
         st_hash["ENABLED"] \in {st_cfg["ENABLED"], 0}
    /\ st_desc.enabled # 0 /\ kvtree_has(st_cfg, "ENABLED") =>
         st_hash["ENABLED"] = st_cfg["ENABLED"]
    /\ kvtree_has(st_cfg, "STORE") =>
         /\ kvtree_has(st_hash, "STORE")
         /\ st_hash["STORE"] = spath_strdup_reduce_str(st_cfg["STORE"])
    /\ kvtree_has(st_cfg, "TYPE") =>
         /\ kvtree_has(st_hash, "TYPE")
         /\ st_hash["TYPE"] =
              IF AllOnOneNode THEN "SINGLE" ELSE UpperCase(st_cfg["TYPE"])

C12_Witness ==
  /\ st_pc = "done"
  /\ ValidConfig(st_cfg)
  /\ RoundTripKeys \ {"ENABLED"} \subseteq DOMAIN st_cfg
  /\ st_cfg["TYPE"] = "xor"
  /\ st_cfg["STORE"] = "/ssd/"
  /\ st_hash["TYPE"] = "XOR"
  /\ st_hash["STORE"] = "/ssd"
  /\ st_hash["OUTPUT"] = 1
  /\ st_hash["ENABLED"] = 1

(* --------------------------- scheme request ---------------------------- *)
(* C13: the scheme build requests is fixed by the copy type and its       *)
(* parameters: SINGLE asks for 0 redundancy, PARTNER for a ring of the    *)
(* world size, and XOR for parity groups of the configured SET_SIZE (the  *)
(* global default when absent), so the set size is among the arguments.   *)
C13_SchemeByCopyType ==
  (st_pc \in {"built", "done"} /\ st_req # <<>>) =>
    /\ st_desc.copy_type = SCR_COPY_SINGLE => st_req[2] = 0
    /\ st_desc.copy_type = SCR_COPY_PARTNER => st_req[2] = scr_ranks_world
    /\ st_desc.copy_type = SCR_COPY_XOR =>
         \E i \in 1 .. Len(st_req) : st_req[i] = ReadSetSize(st_cfg)

(* ------------------------------ selection ------------------------------ *)
Divides(iv, id) == iv # 0 /\ CRem(id, iv) = 0

Eligible(descs, id) ==
  { i \in 1 .. Len(descs) :
      descs[i].enabled # 0 /\ Divides(descs[i].interval, id) }

(* index of the first eligible descriptor of maximum interval, -1 for none *)
Best(descs, id) ==
  IF Eligible(descs, id) = {} THEN 0 - 1
  ELSE (CHOOSE i \in Eligible(descs, id) :
          \A j \in Eligible(descs, id) :
            \/ descs[j].interval < descs[i].interval
            \/ descs[j].interval = descs[i].interval /\ i <= j) - 1

(* C2: for every id >= 1 and every table, scr_reddesc_for_checkpoint      *)
(* returns the first enabled descriptor of maximum interval among those   *)
(* whose interval divides id, and none when no enabled descriptor's       *)
(* interval divides id.                                                   *)
C2_IntervalSelection ==
  sel_pc = "done" => sel_d = Best(sel_descs, sel_id)

(* -------------------------------- apply -------------------------------- *)
Has(log, call) == \E i \in 1 .. Len(log) : log[i] = call

Count(log, call) == Cardinality({ i \in 1 .. Len(log) : log[i] = call })

RECURSIVE SeqSum(_, _)
SeqSum(fs, i) == IF i > Len(fs) THEN 0 ELSE fs[i] + SeqSum(fs, i + 1)

RECURSIVE TotalFileBytes(_)
TotalFileBytes(r) ==
  IF r < 0 THEN 0 ELSE SeqSum(files[r], 1) + TotalFileBytes(r - 1)

StepsOk(r) == er_ok[r].dispatch /\ er_ok[r].wait /\ er_ok[r].free

ApplyDone == op = "apply" /\ \A r \in Ranks : apc[r] = "done"

(* C3: in apply, once some rank's validity flag is false before dispatch, *)
(* no rank calls ER_Dispatch, and every rank that returns has freed its   *)
(* set once and returns failure.                                          *)
C3_EncodeAtomicity ==
  (op = "apply" /\ \E r \in Ranks : apc[r] \notin {"start", "crashed"}
                                    /\ ~valid[r])
  => \A q \in Ranks :
       /\ ~Has(er_log[q], "ER_Dispatch")
       /\ apc[q] \in {"start", "allvalid", "done"}
       /\ apc[q] = "done" =>
            ret[q] = SCR_FAILURE /\ Count(er_log[q], "ER_Free") = 1

C3_Witness ==
  /\ ApplyDone
  /\ \E r, q \in Ranks : ~valid[r] /\ valid[q]
  /\ \A q \in Ranks : ret[q] = SCR_FAILURE /\ Has(er_log[q], "ER_Free")

(* C4: apply returns the same result on every rank, and it is success     *)
(* exactly when every rank's validity flag was true and ER_Dispatch,      *)
(* ER_Wait and ER_Free succeeded on every rank.                           *)
C4_ApplyResultAgreement ==
  ApplyDone =>
    \A r \in Ranks :
      ret[r] = IF \A q \in Ranks : valid[q] /\ StepsOk(q)
               THEN SCR_SUCCESS ELSE SCR_FAILURE

C4_Witness ==
  /\ ApplyDone
  /\ \A q \in Ranks : valid[q]
  /\ \E r \in Ranks :
       /\ er_ok[r] = [dispatch |-> TRUE, wait |-> TRUE, free |-> FALSE]
       /\ \A q \in Ranks \ {r} : StepsOk(q)
  /\ \A q \in Ranks : ret[q] = SCR_FAILURE

(* C5: recover returns a status reduced across all ranks: success on a    *)
(* rank only if Dispatch and Wait succeeded on every rank, hence the      *)
(* same result on all ranks.                                              *)
C5_RecoverReduced ==
  (op = "recover" /\ \A r \in Ranks : apc[r] = "done") =>
    \A r \in Ranks :
      ret[r] = SCR_SUCCESS =>
        \A q \in Ranks : er_ok[q].dispatch /\ er_ok[q].wait

(* C6: when apply succeeds, bytes is the same on every rank and is the    *)
(* sum over all ranks of the sizes of that rank's filemap files, the      *)
(* filemap file itself not counted.                                       *)
C6_ByteAccounting ==
  (ApplyDone /\ \A r \in Ranks : ret[r] = SCR_SUCCESS) =>
    \A r \in Ranks : bytes[r] = TotalFileBytes(NumRanks - 1)

C6_Witness ==
  /\ ApplyDone
  /\ \A r \in Ranks : ret[r] = SCR_SUCCESS
  /\ \E r, q \in Ranks : Len(files[r]) > 0 /\ files[q] # files[r]
  /\ \A r \in Ranks : bytes[r] = TotalFileBytes(NumRanks - 1) /\ bytes[r] > 0

(* C16: in apply, recover and unapply, when ER_Dispatch, ER_Wait or       *)
(* ER_Free returns an error on a rank, the operation does not return      *)
(* success on that rank.                                                  *)
C16_StepErrorsReported ==
  \A r \in Ranks :
    (apc[r] = "done" /\ ~StepsOk(r)) => ret[r] # SCR_SUCCESS

(* C17: in recover and unapply no rank calls ER_Dispatch unless the store *)
(* lookup and ER_Create have succeeded on every rank: a rank that has     *)
(* dispatched implies every rank is past ER_Create with a set id >= 0.    *)
C17_DispatchAfterAgreement ==
  op \in {"recover", "unapply"} =>
    \A r \in Ranks :
      Has(er_log[r], "ER_Dispatch") =>
        \A q \in Ranks : apc[q] \notin {"start", "crashed"} /\ set_id[q] >= 0

(* ------------------------- collectives of build ------------------------ *)
IsPrefix(a, b) == Len(a) <= Len(b) /\ \A i \in 1 .. Len(a) : a[i] = b[i]

(* C18: during build every rank enters the same sequence of collectives   *)
(* (scr_alltrue, scr_str_bcast, ER_Create_Scheme, scr_alltrue) whatever   *)
(* the rank-local outcomes: of any two ranks, the collectives one has     *)
(* entered so far are the beginning of those the other has entered.       *)
C18_SameCollectives ==
  \A r, q \in Ranks :
    IsPrefix(coll_log[r], coll_log[q]) \/ IsPrefix(coll_log[q], coll_log[r])

(* ------------------------------- warnings ------------------------------ *)
WarnEvents == {WARN_STORE, WARN_TYPE, WARN_SINGLE}

(* C19: for each build-time event (store not found, unknown copy type,    *)
(* copy type forced to SINGLE) no rank other than rank 0 emits a warning  *)
(* and rank 0 emits no more than one; once build has returned, rank 0     *)
(* has emitted exactly one for a store that no rank could resolve.        *)
C19_SingleWarningPerEvent ==
  /\ \A e \in WarnEvents :
       /\ \A r \in Ranks \ {0} : Count(warn_log[r], e) = 0
       /\ Count(warn_log[0], e) <= 1
  /\ (AllCreated /\ \A r \in Ranks : StoreUnresolved(r, 1))
       => Count(warn_log[0], WARN_STORE) = 1

(* ------------------------------ apply ends ----------------------------- *)
UsableStore == scr_reddesc_get_store(app_desc) # 0 - 1

(* C20: apply called with a descriptor that has a store eventually        *)
(* returns on every rank, whatever files are incomplete and whichever of  *)
(* ER_Add, ER_Dispatch, ER_Wait, ER_Free fail on whichever ranks; and     *)
(* the ranks that have returned all dispatched or none did.               *)
C20_ApplyReturns ==
  /\ (op = "apply" /\ UsableStore) ~> ApplyDone
  /\ [](ApplyDone =>
         \A r, q \in Ranks :
           Has(er_log[r], "ER_Dispatch") = Has(er_log[q], "ER_Dispatch"))

C20_Witness ==
  /\ ApplyDone
  /\ UsableStore
  /\ \E r, q \in Ranks :
       /\ ~er_ok[r].dispatch /\ Has(er_log[r], "ER_Dispatch")
       /\ StepsOk(q) /\ ret[q] = SCR_FAILURE

(* --------------------------- apply, no store --------------------------- *)
(* C21: when apply is called with a descriptor for which                  *)
(* scr_reddesc_get_store yields no store, no rank crashes on the missing  *)
(* store, and a rank that has returned created no set, dispatched         *)
(* nothing and returned failure.                                          *)
C21_NoStoreNoApply ==
  (op = "apply" /\ ~UsableStore) =>
    \A r \in Ranks :
      /\ apc[r] # "crashed"
      /\ er_log[r] = <<>>
      /\ apc[r] = "done" => ret[r] = SCR_FAILURE

(* --------------------------- set life cycle ---------------------------- *)
(* place of a call in the order Create, Add, Dispatch, Wait, Free *)
CallOrder(call) ==
  CASE call = "ER_Create" -> 0
    [] call = "ER_Add" -> 1
    [] call = "ER_Dispatch" -> 2
    [] call = "ER_Wait" -> 3
    [] call = "ER_Free" -> 4

InLifeCycleOrder(log) ==
  /\ \A i, j \in 1 .. Len(log) :
       i < j => CallOrder(log[i]) <= CallOrder(log[j])
  /\ \A c \in {"ER_Create", "ER_Dispatch", "ER_Wait", "ER_Free"} :
       Count(log, c) <= 1
  /\ log # <<>> => log[1] = "ER_Create"

(* C22: on each rank the calls on the set of apply, recover or unapply    *)
(* come in the order Create, Add*, [Dispatch, Wait,] Free, each of        *)
(* Create, Dispatch, Wait, Free at most once, so nothing follows the      *)
(* free; and a rank that has returned has freed its set exactly once.     *)
C22_SetLifeCycle ==
  \A r \in Ranks :
    /\ InLifeCycleOrder(er_log[r])
    /\ Has(er_log[r], "ER_Wait") => Has(er_log[r], "ER_Dispatch")
    /\ apc[r] = "done" =>
         /\ Count(er_log[r], "ER_Create") = 1
         /\ Count(er_log[r], "ER_Free") = 1
         /\ er_log[r][Len(er_log[r])] = "ER_Free"

C22_Witness ==
  /\ \A r \in Ranks : apc[r] = "done"
  /\ op = "apply"
  /\ \E r \in Ranks :
       /\ Len(files[r]) > 0
       /\ ~er_ok[r].dispatch
       /\ er_log[r] = <<"ER_Create">>
                        \o [i \in 1 .. Len(files[r]) + 1 |-> "ER_Add"]
                        \o <<"ER_Dispatch", "ER_Wait", "ER_Free">>

=============================================================================
